---- MODULE Spec2Model ----
(***************************************************************************)
(* A model of stone/target/python_client.py: PythonClientGenerator, the    *)
(* backend that writes one Python method per route of an API description.  *)
(*                                                                         *)
(* The interface model (api) is immutable input, chosen in Init.  The      *)
(* generated module is the sequence `out` of emitted logical lines; each   *)
(* line is a record whose `kind` names the emit call that produced it.     *)
(* A call of generate_multiline_list is one logical line that carries the  *)
(* list of its items.  Formatting helpers imported from other modules of   *)
(* the package (fmt_class, fmt_func, fmt_var, fmt_obj, fmt_type) are       *)
(* modelled as tagged records over the name they format.                   *)
(***************************************************************************)
EXTENDS Naturals, Sequences, FiniteSets, TLC

VARIABLES api, pc, nsIdx, rtIdx, out

vars == <<api, pc, nsIdx, rtIdx, out>>

-----------------------------------------------------------------------------
(* Bounds of the model *)

\* most routes of one namespace
MaxRoutes == 2
\* most fields of one struct (all_fields: inherited plus own)
MaxFields == 2

-----------------------------------------------------------------------------
(* Names *)

NamespaceNames == <<"files", "users">>
RouteNames == <<"get_metadata", "list_folder", "copy", "move">>
FieldNames == <<"path", "include_media_info", "mode", "rev">>

\* Python's None where the code passes or tests it
PyNone == "<None>"

-----------------------------------------------------------------------------
(* Helpers of the package that live outside this file *)

fmt_class(name) == [fmt |-> "class", of |-> name]
fmt_func(name) == [fmt |-> "func", of |-> name]
fmt_var(name) == [fmt |-> "var", of |-> name]
fmt_obj(value) == [form |-> "literal", of |-> value]
fmt_type(data_type) == [fmt |-> "type", of |-> data_type.name]
class_name_for_data_type(data_type) == fmt_class(data_type.name)

is_void_type(data_type) == data_type.kind = "void"
is_struct_type(data_type) == data_type.kind = "struct"
is_union_type(data_type) == data_type.kind = "union"
is_nullable_type(data_type) == data_type.kind = "nullable"
is_user_defined_type(data_type) == data_type.kind \in {"struct", "union"}
is_tag_ref(value) == value.tagref

\* process_doc(doc, handler): the doc text with its references rewritten by
\* the handler (_docf); it is empty (falsy) exactly when doc is
process_doc(doc) == [text |-> doc, docf |-> TRUE]
\* text emitted as it is written in the generator
Verbatim(text) == [text |-> text, docf |-> FALSE]

\* self.emit(text) / self.emit(): one line
emit(line) == <<line>>
Blank == [kind |-> "blank"]

\* generate_multiline_list(items, before, after): one logical line
generate_multiline_list(kind, before, items) ==
    <<[kind |-> kind, before |-> before, items |-> items]>>

-----------------------------------------------------------------------------
(* Data types of the interface model *)

Void == [kind |-> "void", name |-> "Void"]
\* a shape outside {Void, Struct, Union}
String == [kind |-> "primitive", name |-> "String"]
Nullable(data_type) ==
    [kind |-> "nullable", name |-> data_type.name, of |-> data_type]

Unwrap(data_type) ==
    IF is_nullable_type(data_type) THEN data_type.of ELSE data_type

\* a union with the given variants; `doc` is "" when absent
Union(ns, name, tags, doc) ==
    [kind |-> "union", name |-> name, namespace |-> ns,
     fields |-> tags, doc |-> doc]

WriteMode(ns) == Union(ns, "WriteMode", <<"add", "overwrite">>, "")

NoDefault == [tagref |-> FALSE, value |-> "<unset>"]
Literal(v) == [tagref |-> FALSE, value |-> v]
TagRef(union_data_type, tag_name) ==
    [tagref |-> TRUE, union_data_type |-> union_data_type,
     tag_name |-> tag_name]

\* A field without its name: data type, doc, has_default, default.  A default
\* that is a TagRef names a variant of the field's own (union) data type.
FieldShapes ==
    LET Base == {String} \cup {WriteMode(NamespaceNames[i]) : i \in 1..2}
    IN  { [data_type |-> IF n THEN Nullable(t) ELSE t,
           doc |-> d,
           has_default |-> h,
           default |-> IF ~h THEN NoDefault
                       ELSE IF is_union_type(t) THEN TagRef(t, "add")
                       ELSE Literal("false")] :
          <<t, n, h, d>> \in Base \X BOOLEAN \X BOOLEAN \X {"", "The doc."} }

\* sequences over S of length 0..n
RECURSIVE SeqsUpTo(_, _)
SeqsUpTo(S, n) ==
    IF n = 0 THEN {<<>>}
    ELSE LET Shorter == SeqsUpTo(S, n - 1)
         IN  Shorter \cup {Append(s, x) : <<s, x>> \in Shorter \X S}

Named(shapes, names) ==
    [i \in 1..Len(shapes) |-> [name |-> names[i]] @@ shapes[i]]

\* a struct whose parent contributes `inherited` and which declares `own`
Struct(ns, name, inherited, own) ==
    LET all == Named(inherited \o own, FieldNames)
    IN  [kind |-> "struct", name |-> name, namespace |-> ns,
         fields |-> SubSeq(all, Len(inherited) + 1, Len(all)),
         all_fields |-> all]

NotDeprecated == [set |-> FALSE, by |-> PyNone]
Deprecated(by) == [set |-> TRUE, by |-> by]

-----------------------------------------------------------------------------
(* PythonClientGenerator *)

DOCSTRING_CLOSE_RESPONSE == "If you do not consume the entire response body..."

\* _generate_python_value(namespace, value); namespace is the namespace's name
_generate_python_value(namespace, value) ==
    IF is_tag_ref(value)
    THEN [form |-> "tagref",
          ns |-> namespace,
          cls |-> class_name_for_data_type(value.union_data_type),
          tag |-> fmt_var(value.tag_name)]
    ELSE fmt_obj(value.value)

\* a parameter of a signature: a bare name, or name=value
Positional(name) == [name |-> name, eq |-> FALSE]
Keyword(name, value) == [name |-> name, eq |-> TRUE, value |-> value]
NoneValue == [form |-> "None"]

\* the loop body testing has_default before the nullable type
FieldArgDefaultFirst(namespace, field) ==
    IF field.has_default
    THEN LET ns == IF is_user_defined_type(Unwrap(field.data_type))
                   THEN Unwrap(field.data_type).namespace
                   ELSE PyNone
         IN  Keyword(field.name, _generate_python_value(ns, field.default))
    ELSE IF is_nullable_type(field.data_type)
    THEN Keyword(field.name, NoneValue)
    ELSE Positional(field.name)

\* the loop body rendering a default in the route's namespace
FieldArgRouteNamespace(namespace, field) ==
    IF is_nullable_type(field.data_type)
    THEN Keyword(field.name, NoneValue)
    ELSE IF field.has_default
    THEN Keyword(field.name, _generate_python_value(namespace.name, field.default))
    ELSE Positional(field.name)

\* the body of the loop over arg_data_type.all_fields in
\* _generate_route_method_decl (namespace is in scope, and unused)
FieldArg(namespace, field) ==
    IF is_nullable_type(field.data_type)
    THEN Keyword(field.name, NoneValue)
    ELSE IF field.has_default
    THEN LET ns == IF is_user_defined_type(field.data_type)
                   THEN field.data_type.namespace
                   ELSE PyNone
         IN  Keyword(field.name, _generate_python_value(ns, field.default))
    ELSE Positional(field.name)

\* args of _generate_route_method_decl before the argument type is looked at
LeadingArgs(extra_args, request_binary_body) ==
    <<Positional("self")>>
    \o extra_args
    \o (IF request_binary_body THEN <<Positional("f")>> ELSE <<>>)

\* the args with the binary body appended after the argument type's own
DeclArgsBinaryBodyLast(namespace, arg_data_type, extra_args, request_binary_body) ==
    LeadingArgs(extra_args, FALSE)
    \o (IF is_struct_type(arg_data_type)
        THEN [i \in 1..Len(arg_data_type.all_fields) |->
                 FieldArg(namespace, arg_data_type.all_fields[i])]
        ELSE IF is_union_type(arg_data_type)
        THEN <<Positional("arg")>>
        ELSE <<>>)
    \o (IF request_binary_body THEN <<Positional("f")>> ELSE <<>>)

\* args of _generate_route_method_decl once the argument type has added its own
DeclArgs(namespace, arg_data_type, extra_args, request_binary_body) ==
    LeadingArgs(extra_args, request_binary_body)
    \o (IF is_struct_type(arg_data_type)
        THEN [i \in 1..Len(arg_data_type.all_fields) |->
                 FieldArg(namespace, arg_data_type.all_fields[i])]
        ELSE IF is_union_type(arg_data_type)
        THEN <<Positional("arg")>>
        ELSE <<>>)

\* _generate_route_method_decl raising after it has emitted the signature
_generate_route_method_decl_late_raise(namespace, route, arg_data_type, request_binary_body, method_name_suffix, extra_args) ==
    [raised |-> ~is_struct_type(arg_data_type) /\ ~is_union_type(arg_data_type)
                /\ ~is_void_type(arg_data_type),
     lines |-> generate_multiline_list("decl",
                   [namespace_name |-> fmt_func(namespace.name),
                    method_name |-> fmt_func(route.name),
                    suffix |-> method_name_suffix],
                   DeclArgs(namespace, arg_data_type, extra_args,
                            request_binary_body))]

\* _generate_route_method_decl: the lines emitted, or raised = TRUE when the
\* AssertionError is raised (before anything is emitted)
_generate_route_method_decl(namespace, route, arg_data_type, request_binary_body, method_name_suffix, extra_args) ==
    IF ~is_struct_type(arg_data_type) /\ ~is_union_type(arg_data_type)
       /\ ~is_void_type(arg_data_type)
    THEN [raised |-> TRUE, lines |-> <<>>]
    ELSE [raised |-> FALSE,
          lines |-> generate_multiline_list("decl",
                        [namespace_name |-> fmt_func(namespace.name),
                         method_name |-> fmt_func(route.name),
                         suffix |-> method_name_suffix],
                        DeclArgs(namespace, arg_data_type, extra_args,
                                 request_binary_body))]

\* _maybe_generate_deprecation_warning
_maybe_generate_deprecation_warning(route) ==
    IF route.deprecated.set
    THEN generate_multiline_list("warn", [form |-> "warnings.warn"],
             <<[msg |-> "is deprecated.", name |-> route.name,
                use |-> route.deprecated.by],
               [msg |-> "DeprecationWarning"]>>)
    ELSE <<>>

\* _format_type_in_doc(namespace, data_type)
_format_type_in_doc(namespace, data_type) ==
    IF is_void_type(data_type) THEN [form |-> "None"]
    ELSE IF is_user_defined_type(data_type)
    THEN [form |-> "class", ns |-> namespace.name, type |-> fmt_type(data_type)]
    ELSE [form |-> "plain", type |-> fmt_type(data_type)]

\* _generate_docstring_for_func; overview.text is "" when there is none,
\* extra_request_args is <<>> for None, extra_return_arg and footer are PyNone
\* for None
_generate_docstring_for_func(namespace, arg_data_type, result_data_type, error_data_type, overview, extra_request_args, extra_return_arg, footer) ==
    LET fields == IF is_void_type(arg_data_type) THEN <<>>
                  ELSE arg_data_type.fields
        has_params == extra_request_args # <<>> \/ fields # <<>>
        ExtraDoc(e) ==
            [kind |-> "doc_param", name |-> e.name, doc |-> Verbatim(e.doc),
             type |-> IF e.type # PyNone
                      THEN [form |-> "named", name |-> e.type]
                      ELSE [form |-> "untyped"]]
        FieldDoc(field) ==
            LET type == _format_type_in_doc(namespace, field.data_type)
            IN  IF field.doc # ""
                THEN IF is_user_defined_type(field.data_type)
                     THEN <<[kind |-> "doc_param", name |-> field.name,
                             doc |-> process_doc(field.doc),
                             type |-> [form |-> "untyped"]],
                            [kind |-> "doc_type", name |-> field.name,
                             type |-> type]>>
                     ELSE <<[kind |-> "doc_param", name |-> field.name,
                             doc |-> process_doc(field.doc), type |-> type]>>
                ELSE <<[kind |-> "doc_type", name |-> field.name,
                        type |-> type]>>
        FieldDocs[i \in 0..Len(fields)] ==
            IF i = 0 THEN <<>> ELSE FieldDocs[i - 1] \o FieldDoc(fields[i])
        params ==
            IF ~has_params THEN <<>>
            ELSE (IF overview.text # "" THEN emit(Blank) ELSE <<>>)
                 \o [i \in 1..Len(extra_request_args) |->
                        ExtraDoc(extra_request_args[i])]
                 \o (IF is_struct_type(arg_data_type)
                     THEN FieldDocs[Len(fields)]
                     ELSE IF is_union_type(arg_data_type)
                     THEN (IF arg_data_type.doc # ""
                           THEN emit([kind |-> "doc_param", name |-> "arg",
                                      doc |-> process_doc(arg_data_type.doc),
                                      type |-> [form |-> "untyped"]])
                           ELSE <<>>)
                          \o emit([kind |-> "doc_type", name |-> "arg",
                                   type |-> _format_type_in_doc(
                                                namespace, arg_data_type)])
                     ELSE <<>>)
        rtype == _format_type_in_doc(namespace, result_data_type)
        returns ==
            IF extra_return_arg # PyNone
            THEN generate_multiline_list("doc_rtype", [form |-> ":rtype: "],
                     <<rtype, [form |-> "extra", name |-> extra_return_arg]>>)
            ELSE emit([kind |-> "doc_rtype", before |-> [form |-> ":rtype: "],
                       items |-> <<rtype>>])
        raises ==
            IF ~is_void_type(error_data_type) /\ error_data_type.fields # <<>>
            THEN <<[kind |-> "doc_raises"], Blank,
                   [kind |-> "doc_reason"],
                   [kind |-> "doc_reason_type",
                    type |-> _format_type_in_doc(namespace, error_data_type)]>>
            ELSE <<>>
    IN  IF fields = <<>> /\ overview.text = ""
        THEN <<>>
        ELSE emit([kind |-> "doc_quotes"])
             \o (IF overview.text # ""
                 THEN emit([kind |-> "doc_text", text |-> overview])
                 ELSE <<>>)
             \o params
             \o (IF overview.text # "" /\ ~has_params THEN emit(Blank) ELSE <<>>)
             \o returns
             \o raises
             \o (IF footer # PyNone
                 THEN emit(Blank)
                      \o emit([kind |-> "doc_text", text |-> Verbatim(footer)])
                 ELSE <<>>)
             \o emit([kind |-> "doc_quotes"])

\* the extras with the extra return value left out of the file variant
DocstringExtrasPlainOnly(request_binary_body, response_binary_body, download_to_file) ==
    [extra_request_args |->
        IF request_binary_body
        THEN <<[name |-> "f", type |-> PyNone,
                doc |-> "A string or file-like obj of data."]>>
        ELSE IF download_to_file
        THEN <<[name |-> "download_path", type |-> "str",
                doc |-> "Path on local machine to save file."]>>
        ELSE <<>>,
     extra_return_arg |->
        IF response_binary_body /\ ~download_to_file
        THEN "requests.models.Response"
        ELSE PyNone,
     footer |->
        IF response_binary_body /\ ~download_to_file
        THEN DOCSTRING_CLOSE_RESPONSE
        ELSE PyNone]

\* the docstring's extras chosen at the head of _generate_route_helper's body
DocstringExtras(request_binary_body, response_binary_body, download_to_file) ==
    [extra_request_args |->
        IF request_binary_body
        THEN <<[name |-> "f", type |-> PyNone,
                doc |-> "A string or file-like obj of data."]>>
        ELSE IF download_to_file
        THEN <<[name |-> "download_path", type |-> "str",
                doc |-> "Path on local machine to save file."]>>
        ELSE <<>>,
     extra_return_arg |->
        IF response_binary_body THEN "requests.models.Response" ELSE PyNone,
     footer |->
        IF response_binary_body /\ ~download_to_file
        THEN DOCSTRING_CLOSE_RESPONSE
        ELSE PyNone]

\* the argument built from the struct's own fields only
MaterializeArgOwnFields(arg_data_type) ==
    IF is_void_type(arg_data_type)
    THEN [raised |-> FALSE,
          lines |-> generate_multiline_list("arg", [form |-> "None"], <<>>)]
    ELSE IF is_struct_type(arg_data_type)
    THEN [raised |-> FALSE,
          lines |-> generate_multiline_list("arg",
                        [form |-> "class",
                         ns |-> arg_data_type.namespace,
                         cls |-> fmt_class(arg_data_type.name)],
                        [i \in 1..Len(arg_data_type.fields) |->
                            arg_data_type.fields[i].name])]
    ELSE [raised |-> ~is_union_type(arg_data_type), lines |-> <<>>]

\* "Code to instantiate a class for the request data type"
MaterializeArg(arg_data_type) ==
    IF is_void_type(arg_data_type)
    THEN [raised |-> FALSE,
          lines |-> generate_multiline_list("arg", [form |-> "None"], <<>>)]
    ELSE IF is_struct_type(arg_data_type)
    THEN [raised |-> FALSE,
          lines |-> generate_multiline_list("arg",
                        [form |-> "class",
                         ns |-> arg_data_type.namespace,
                         cls |-> fmt_class(arg_data_type.name)],
                        [i \in 1..Len(arg_data_type.all_fields) |->
                            arg_data_type.all_fields[i].name])]
    ELSE IF ~is_union_type(arg_data_type)
    THEN [raised |-> TRUE, lines |-> <<>>]
    ELSE [raised |-> FALSE, lines |-> <<>>]

\* "Code to make the request"
RequestCall(namespace, route, request_binary_body) ==
    generate_multiline_list("request", [form |-> "r = self.request"],
        <<[ns |-> namespace.name, route |-> fmt_var(route.name)],
          [quoted |-> namespace.name],
          [name |-> "arg"],
          [name |-> IF request_binary_body THEN "f" ELSE "None"]>>)

\* what follows the request: saving the body, and the return statement
ResultHandling(download_to_file, result_data_type) ==
    IF download_to_file
    THEN emit([kind |-> "save",
               text |-> "self._save_body_to_file(download_path, r[1])"])
         \o (IF is_void_type(result_data_type)
             THEN emit([kind |-> "return", value |-> "None"])
             ELSE emit([kind |-> "return", value |-> "r[0]"]))
    ELSE IF is_void_type(result_data_type)
    THEN emit([kind |-> "return", value |-> "None"])
    ELSE emit([kind |-> "return", value |-> "r"])

\* the method body with the warning emitted after the argument is built
MethodBodyWarnLate(docstring, warning, arg, request, result) ==
    docstring \o arg \o warning \o request \o result \o emit(Blank)

\* the order in which _generate_route_helper emits the parts of a method body
\* that raises nothing
MethodBody(docstring, warning, arg, request, result) ==
    docstring \o warning \o arg \o request \o result \o emit(Blank)

\* _generate_route_helper: the lines of one method, or the lines emitted
\* before an AssertionError
_generate_route_helper(namespace, route, download_to_file) ==
    LET arg_data_type == route.arg_data_type
        result_data_type == route.result_data_type
        request_binary_body == route.attrs.style = "upload"
        response_binary_body == route.attrs.style = "download"
        decl ==
            IF download_to_file
            THEN _generate_route_method_decl(namespace, route, arg_data_type,
                     request_binary_body, "_to_file",
                     <<Positional("download_path")>>)
            ELSE _generate_route_method_decl(namespace, route, arg_data_type,
                     request_binary_body, "", <<>>)
        extras == DocstringExtras(request_binary_body, response_binary_body,
                                  download_to_file)
        docstring ==
            _generate_docstring_for_func(namespace, arg_data_type,
                result_data_type, route.error_data_type,
                process_doc(route.doc), extras.extra_request_args,
                extras.extra_return_arg, extras.footer)
        warning == _maybe_generate_deprecation_warning(route)
        arg == MaterializeArg(arg_data_type)
    IN  IF download_to_file /\ ~response_binary_body
        THEN [raised |-> TRUE, lines |-> <<>>]
        ELSE IF decl.raised
        THEN [raised |-> TRUE, lines |-> decl.lines]
        ELSE IF arg.raised
        THEN [raised |-> TRUE, lines |-> decl.lines \o docstring \o warning]
        ELSE [raised |-> FALSE,
              lines |-> decl.lines
                        \o MethodBody(docstring, warning, arg.lines,
                               RequestCall(namespace, route, request_binary_body),
                               ResultHandling(download_to_file,
                                              result_data_type))]

\* _generate_route without its second call
_generate_route_plain_only(namespace, route) ==
    _generate_route_helper(namespace, route, FALSE)

\* _generate_route
_generate_route(namespace, route) ==
    LET plain == _generate_route_helper(namespace, route, FALSE)
        to_file == _generate_route_helper(namespace, route, TRUE)
    IN  IF plain.raised THEN plain
        ELSE IF route.attrs.style = "download"
        THEN [raised |-> to_file.raised, lines |-> plain.lines \o to_file.lines]
        ELSE plain

\* the scan without its two breaks
RECURSIVE ImportWarningsNoBreak(_, _, _)
ImportWarningsNoBreak(namespaces, i, j) ==
    IF i > Len(namespaces) THEN <<>>
    ELSE IF j > Len(namespaces[i].routes)
    THEN ImportWarningsNoBreak(namespaces, i + 1, 1)
    ELSE (IF namespaces[i].routes[j].deprecated.set
          THEN emit([kind |-> "import", text |-> "import warnings"])
          ELSE <<>>)
         \o ImportWarningsNoBreak(namespaces, i, j + 1)

\* the scan of generate() for a deprecated route: at most one import line,
\* both loops left at the first hit
RECURSIVE ImportWarnings(_, _, _)
ImportWarnings(namespaces, i, j) ==
    IF i > Len(namespaces) THEN <<>>
    ELSE IF j > Len(namespaces[i].routes) THEN ImportWarnings(namespaces, i + 1, 1)
    ELSE IF namespaces[i].routes[j].deprecated.set
    THEN emit([kind |-> "import", text |-> "import warnings"])
    ELSE ImportWarnings(namespaces, i, j + 1)

\* _generate_imports: one line per namespace that has data types, between
\* 'from . import (' and ')'
_generate_imports(namespaces) ==
    LET with_types == SelectSeq(namespaces, LAMBDA ns : ns.data_types # {})
    IN  emit([kind |-> "stmt", text |-> "from . import ("])
        \o [i \in 1..Len(with_types) |->
               [kind |-> "import_name", name |-> with_types[i].name]]
        \o emit([kind |-> "stmt", text |-> ")"])

\* _generate_route_methods: the banner of a namespace that has routes
Banner(namespace) ==
    emit([kind |-> "comment", text |-> "------------------------------------------"])
    \o emit([kind |-> "comment", text |-> "Routes in namespace",
             name |-> namespace.name])
    \o emit(Blank)

\* generate(): everything emitted before _generate_route_methods is called
Prologue(namespaces) ==
    emit([kind |-> "raw", text |-> "base"])
    \o ImportWarnings(namespaces, 1, 1)
    \o emit(Blank)
    \o _generate_imports(namespaces)
    \o emit(Blank)
    \o emit(Blank)
    \o emit([kind |-> "class", text |-> "class %s(object):"])
    \o emit([kind |-> "stmt", text |-> "__metaclass__ = ABCMeta"])
    \o emit(Blank)
    \o emit([kind |-> "stmt", text |-> "@abstractmethod"])
    \o emit([kind |-> "stmt",
             text |-> "def request(self, route, namespace, arg, arg_binary=None):"])
    \o emit([kind |-> "stmt", text |-> "pass"])
    \o emit(Blank)

-----------------------------------------------------------------------------
(* The interface models the generator is run on *)

Route(style, deprecated, doc, arg, result, error) ==
    [attrs |-> [style |-> style], deprecated |-> deprecated, doc |-> doc,
     arg_data_type |-> arg, result_data_type |-> result,
     error_data_type |-> error]

\* the user-defined types a route mentions, as <<namespace, name>>
UserTypes(route) ==
    LET arg == route.arg_data_type
        top == {route.arg_data_type, route.result_data_type,
                route.error_data_type}
        of_fields == IF is_struct_type(arg)
                     THEN {Unwrap(arg.all_fields[i].data_type) :
                              i \in 1..Len(arg.all_fields)}
                     ELSE {}
    IN  {<<t.namespace, t.name>> : t \in {u \in top \cup of_fields :
                                              is_user_defined_type(u)}}

\* the api whose i-th namespace has the routes route_seqs[i], named by position
Api(route_seqs) ==
    LET mentioned == UNION {UNION {UserTypes(route_seqs[i][j]) :
                                      j \in 1..Len(route_seqs[i])} :
                               i \in 1..Len(route_seqs)}
    IN  [i \in 1..Len(route_seqs) |->
            [name |-> NamespaceNames[i],
             routes |-> Named(route_seqs[i], RouteNames),
             data_types |-> {t \in mentioned : t[1] = NamespaceNames[i]}]]

Styles == {PyNone, "upload", "download"}
Metadata == Struct("files", "Metadata", <<>>, <<>>)
ErrorTypes == {Void,
               Union("files", "GetMetadataError", <<"path">>, ""),
               Union("files", "NoError", <<>>, "")}

Required(doc) ==
    [data_type |-> String, doc |-> doc, has_default |-> FALSE,
     default |-> NoDefault]
Optional(data_type, doc) ==
    [data_type |-> Nullable(data_type), doc |-> doc, has_default |-> FALSE,
     default |-> NoDefault]

\* the argument types of the routes whose other attributes vary freely
ArgTypes ==
    {Void,
     String,
     Struct("files", "GetMetadataArg", <<>>,
            <<Required("The path."), Optional(String, "")>>),
     Struct("users", "GetAccountArg", <<Required("The id.")>>, <<>>),
     Struct("files", "EmptyArg", <<>>, <<>>),
     Union("files", "Selector", <<"id", "path">>, "A selector."),
     Union("users", "Nothing", <<>>, "")}

\* every struct of at most MaxFields fields, each split of all_fields into
\* inherited and own
Structs ==
    {Struct("files", "UploadArg", SubSeq(s, 1, k), SubSeq(s, k + 1, Len(s))) :
        <<s, k>> \in {<<t, n>> \in SeqsUpTo({f \in FieldShapes : f.doc = ""},
                                            MaxFields) \X (0..MaxFields) :
                         n <= Len(t)}}

\* one route, every attribute varied, in either namespace
RoutesWide ==
    {Route(s, d, doc, a, r, e) :
        <<s, d, doc, a, r, e>> \in
            Styles
            \X {NotDeprecated, Deprecated(PyNone), Deprecated("get_metadata_v2")}
            \X {"", "Returns the metadata."}
            \X ArgTypes \X {Void, Metadata} \X ErrorTypes}

\* one route, every struct as its argument
RoutesDeep ==
    {Route(s, NotDeprecated, "", a, Metadata, Void) : <<s, a>> \in Styles \X Structs}

\* the routes of the models that have several routes
RoutesMany ==
    {Route(s, d, "", Void, Metadata, Void) :
        <<s, d>> \in {PyNone, "download"} \X {NotDeprecated, Deprecated(PyNone)}}
    \cup {Route(PyNone, NotDeprecated, "", String, Metadata, Void)}

-----------------------------------------------------------------------------
(* generate(api), one step per loop iteration *)

\* the models: one route with every attribute varied, in either namespace;
\* one route with every struct as its argument; several routes in both
\* namespaces
Init ==
    /\ \/ \E r \in RoutesWide : api \in {Api(<<<<r>>, <<>>>>), Api(<<<<>>, <<r>>>>)}
       \/ \E r \in RoutesDeep : api = Api(<<<<r>>, <<>>>>)
       \/ \E a, b \in SeqsUpTo(RoutesMany, MaxRoutes) : api = Api(<<a, b>>)
    /\ pc = "start"
    /\ nsIdx = 0
    /\ rtIdx = 0
    /\ out = <<>>

\* generate() up to the call of _generate_route_methods
Generate ==
    /\ pc = "start"
    /\ out' = Prologue(api)
    /\ pc' = "namespaces"
    /\ nsIdx' = 1
    /\ UNCHANGED <<api, rtIdx>>

\* for namespace in namespaces: if namespace.routes
EnterNamespace ==
    /\ pc = "namespaces"
    /\ nsIdx <= Len(api)
    /\ api[nsIdx].routes # <<>>
    /\ out' = out \o Banner(api[nsIdx])
    /\ pc' = "routes"
    /\ rtIdx' = 1
    /\ UNCHANGED <<api, nsIdx>>

\* a namespace without routes
SkipNamespace ==
    /\ pc = "namespaces"
    /\ nsIdx <= Len(api)
    /\ api[nsIdx].routes = <<>>
    /\ nsIdx' = nsIdx + 1
    /\ UNCHANGED <<api, pc, rtIdx, out>>

\* for route in namespace.routes: self._generate_route(namespace, route)
GenerateRoute ==
    /\ pc = "routes"
    /\ LET generated == _generate_route(api[nsIdx], api[nsIdx].routes[rtIdx])
       IN  /\ ~generated.raised
           /\ out' = out \o generated.lines
    /\ IF rtIdx < Len(api[nsIdx].routes)
       THEN /\ rtIdx' = rtIdx + 1
            /\ UNCHANGED <<pc, nsIdx>>
       ELSE /\ rtIdx' = 0
            /\ nsIdx' = nsIdx + 1
            /\ pc' = "namespaces"
    /\ UNCHANGED api

\* the AssertionError leaves generate(); the output file is closed
GenerateRouteRaises ==
    /\ pc = "routes"
    /\ LET generated == _generate_route(api[nsIdx], api[nsIdx].routes[rtIdx])
       IN  /\ generated.raised
           /\ out' = out \o generated.lines
    /\ pc' = "failed"
    /\ UNCHANGED <<api, nsIdx, rtIdx>>

\* the loop over the namespaces ends and generate() returns
Finish ==
    /\ pc = "namespaces"
    /\ nsIdx > Len(api)
    /\ pc' = "done"
    /\ UNCHANGED <<api, nsIdx, rtIdx, out>>

Next ==
    \/ Generate
    \/ EnterNamespace
    \/ SkipNamespace
    \/ GenerateRoute
    \/ GenerateRouteRaises
    \/ Finish

Spec == Init /\ [][Next]_vars

-----------------------------------------------------------------------------
(* Reading the generated module *)

\* the routes of the model, as <<namespace index, route index>>
Routes == UNION {{<<i, j>> : j \in 1..Len(api[i].routes)} : i \in 1..Len(api)}

RouteAt(r) == api[r[1]].routes[r[2]]

\* the loops of _generate_route_methods have completed route r
Generated(r) ==
    \/ r[1] < nsIdx
    \/ r[1] = nsIdx /\ pc \in {"routes", "failed"} /\ r[2] < rtIdx

\* the lines that open a method
Decls == {k \in 1..Len(out) : out[k].kind = "decl"}

\* the signatures emitted for route r
DeclsOf(r) ==
    {k \in Decls :
        /\ out[k].before.namespace_name = fmt_func(api[r[1]].name)
        /\ out[k].before.method_name = fmt_func(RouteAt(r).name)}

\* the route a signature belongs to
RouteOfDecl(k) == CHOOSE r \in Routes : k \in DeclsOf(r)

Min(S) == CHOOSE x \in S : \A y \in S : x <= y
Max(S) == CHOOSE x \in S : \A y \in S : y <= x

\* the method opened at line k: its lines up to the next signature or banner
Method(k) ==
    LET later == {m \in k + 1..Len(out) : out[m].kind \in {"decl", "comment"}}
    IN  SubSeq(out, k, IF later = {} THEN Len(out) ELSE Min(later) - 1)

\* the places of the lines of one kind in a sequence of lines
Places(lines, kind) == {p \in 1..Len(lines) : lines[p].kind = kind}

-----------------------------------------------------------------------------
(* C1: every route that generate() has passed has exactly one method when   *)
(* its style is not 'download' and exactly two, the plain one followed by   *)
(* the '_to_file' one, when it is; a route not yet reached has none.        *)

C1_MethodsPerRoute ==
    \A r \in Routes :
        LET ds == DeclsOf(r)
        IN  IF ~Generated(r) THEN ds = {}
            ELSE IF RouteAt(r).attrs.style = "download"
            THEN /\ Cardinality(ds) = 2
                 /\ out[Min(ds)].before.suffix = ""
                 /\ out[Max(ds)].before.suffix = "_to_file"
            ELSE /\ Cardinality(ds) = 1
                 /\ \A k \in ds : out[k].before.suffix = ""

\* a finished pass over a model with a download route and another route
C1_Witness ==
    /\ pc = "done"
    /\ \E r, q \in Routes :
          /\ RouteAt(r).attrs.style = "download"
          /\ RouteAt(q).attrs.style # "download"
          /\ Cardinality(DeclsOf(r)) = 2
          /\ Cardinality(DeclsOf(q)) = 1

-----------------------------------------------------------------------------
(* C4: once the prologue is written, the module holds 'import warnings'     *)
(* exactly once if some route of some namespace is deprecated and not at    *)
(* all otherwise, and the import precedes the class definition, every       *)
(* method and every warnings.warn call.                                     *)

C4_ImportWarningsOnce ==
    pc # "start" =>
        LET imports == Places(out, "import")
        IN  /\ Cardinality(imports) =
                  IF \E r \in Routes : RouteAt(r).deprecated.set THEN 1 ELSE 0
            /\ \A k \in imports : \A m \in 1..Len(out) :
                  out[m].kind \in {"class", "decl", "warn"} => k < m

\* a finished pass over a model with deprecated routes in both namespaces
C4_Witness ==
    /\ pc = "done"
    /\ \E r, q \in Routes :
          /\ r[1] # q[1]
          /\ RouteAt(r).deprecated.set
          /\ RouteAt(q).deprecated.set
    /\ Cardinality(Places(out, "import")) = 1
    /\ Cardinality(Places(out, "warn")) >= 2

-----------------------------------------------------------------------------
(* C10: a route whose argument type is none of Void, Struct, Union ends the *)
(* pass when it is reached: the step that fails emits nothing, nothing      *)
(* happens after it, and no route is ever passed whose argument type is     *)
(* outside the three shapes; a route inside them never fails.               *)

ValidArg(route) ==
    \/ is_void_type(route.arg_data_type)
    \/ is_struct_type(route.arg_data_type)
    \/ is_union_type(route.arg_data_type)

C10_FatalArgType ==
    /\ [](\A r \in Routes : Generated(r) => ValidArg(RouteAt(r)))
    /\ [](pc = "failed" =>
            /\ ~ValidArg(RouteAt(<<nsIdx, rtIdx>>))
            /\ \A r \in Routes : ~Generated(r) => DeclsOf(r) = {})
    /\ [][/\ pc' = "failed" => out' = out
          /\ pc = "failed" => UNCHANGED vars
          /\ pc = "routes" /\ ~ValidArg(RouteAt(<<nsIdx, rtIdx>>))
                => pc' = "failed"]_vars

\* a pass that failed after it had generated a route, with routes and a
\* namespace still to come
C10_Witness ==
    /\ pc = "failed"
    /\ rtIdx = 2
    /\ nsIdx = 1
    /\ Len(api[2].routes) > 0
    /\ Cardinality(Decls) >= 1

-----------------------------------------------------------------------------
(* Reading one method *)

HasDocstring(method) == Len(method) >= 2 /\ method[2].kind = "doc_quotes"

\* the place of the first line after the signature and the docstring
BodyStart(method) ==
    IF HasDocstring(method) THEN Max(Places(method, "doc_quotes")) + 1 ELSE 2

\* lines without the places in S
RECURSIVE Without(_, _)
Without(lines, S) ==
    IF lines = <<>> THEN <<>>
    ELSE Without(SubSeq(lines, 1, Len(lines) - 1), S)
         \o (IF Len(lines) \in S THEN <<>> ELSE <<lines[Len(lines)]>>)

-----------------------------------------------------------------------------
(* C3 as claimed: in every method of a deprecated route the warning call    *)
(* is the line right after the signature, nothing between them, and it      *)
(* precedes the argument and the request; a route that is not deprecated    *)
(* has no warning call.                                                     *)

C3_WarningRightAfterSignature ==
    \A k \in Decls :
        LET method == Method(k)
            route == RouteAt(RouteOfDecl(k))
        IN  IF route.deprecated.set
            THEN /\ Places(method, "warn") = {2}
                 /\ \A p \in Places(method, "arg") \cup Places(method, "request") :
                       2 < p
            ELSE Places(method, "warn") = {}

(* C3 as amended: in every method of a deprecated route there is exactly    *)
(* one warning call, it names the route, and it is the first line after     *)
(* the signature and the docstring (when one is emitted): only the          *)
(* docstring stands between the signature and the call, and the call        *)
(* precedes the argument and the request.  A route that is not deprecated   *)
(* has no warning call.                                                     *)

C3_WarningAfterDocstring ==
    \A k \in Decls :
        LET method == Method(k)
            route == RouteAt(RouteOfDecl(k))
        IN  IF route.deprecated.set
            THEN /\ Places(method, "warn") = {BodyStart(method)}
                 /\ method[BodyStart(method)].items[1].name = route.name
                 /\ Places(method, "request") # {}
                 /\ \A p \in Places(method, "arg") \cup Places(method, "request") :
                       BodyStart(method) < p
            ELSE Places(method, "warn") = {}

\* a deprecated route with a docstring and a struct argument, both variants
C3_Witness ==
    /\ pc = "done"
    /\ \E k \in Decls :
          /\ RouteAt(RouteOfDecl(k)).deprecated.set
          /\ is_struct_type(RouteAt(RouteOfDecl(k)).arg_data_type)
          /\ out[k].before.suffix = "_to_file"
          /\ HasDocstring(Method(k))
          /\ Places(Method(k), "warn") = {BodyStart(Method(k))}
          /\ Places(Method(k), "arg") # {}

-----------------------------------------------------------------------------
(* C5: every method of a route with a Struct argument has exactly one       *)
(* argument line, 'arg = <ns>.<Class>(...)', whose items are the names of   *)
(* all_fields (inherited, then own), each once and in declared order, and   *)
(* the line precedes the request call.                                      *)

C5_StructArgAllFields ==
    \A k \in Decls :
        LET method == Method(k)
            arg == RouteAt(RouteOfDecl(k)).arg_data_type
        IN  is_struct_type(arg) =>
                /\ Cardinality(Places(method, "arg")) = 1
                /\ \A p \in Places(method, "arg") :
                      /\ method[p].before = [form |-> "class",
                                              ns |-> arg.namespace,
                                              cls |-> fmt_class(arg.name)]
                      /\ Len(method[p].items) = Len(arg.all_fields)
                      /\ \A i \in 1..Len(arg.all_fields) :
                            method[p].items[i] = arg.all_fields[i].name
                      /\ \A i, j \in 1..Len(method[p].items) :
                            method[p].items[i] = method[p].items[j] => i = j
                      /\ Places(method, "request") # {}
                      /\ \A q \in Places(method, "request") : p < q

\* a struct argument with an inherited field and an own field
C5_Witness ==
    /\ pc = "done"
    /\ \E k \in Decls :
          LET arg == RouteAt(RouteOfDecl(k)).arg_data_type
          IN  /\ is_struct_type(arg)
              /\ Len(arg.fields) = 1
              /\ Len(arg.all_fields) = 2
              /\ \E p \in Places(Method(k), "arg") :
                    Method(k)[p].items = <<FieldNames[1], FieldNames[2]>>

-----------------------------------------------------------------------------
(* C6: the signature of a method is the receiver, the destination path in   *)
(* the file variant, 'f' for an upload route, and then: for a Struct, one   *)
(* parameter per field of all_fields in order, '<name>=None' when the       *)
(* field's type is nullable (with or without a default), '<name>=<rendered  *)
(* default>' when it is not nullable and has a default, and the bare name   *)
(* otherwise; for a Union the one parameter 'arg'; for Void nothing.        *)

C6_RenderedDefault(field) ==
    IF field.default.tagref
    THEN [form |-> "tagref",
          ns |-> field.default.union_data_type.namespace,
          cls |-> fmt_class(field.default.union_data_type.name),
          tag |-> fmt_var(field.default.tag_name)]
    ELSE fmt_obj(field.default.value)

C6_Param(field) ==
    IF field.data_type.kind = "nullable"
    THEN [name |-> field.name, eq |-> TRUE, value |-> [form |-> "None"]]
    ELSE IF field.has_default
    THEN [name |-> field.name, eq |-> TRUE, value |-> C6_RenderedDefault(field)]
    ELSE [name |-> field.name, eq |-> FALSE]

C6_Signature ==
    \A k \in Decls :
        LET route == RouteAt(RouteOfDecl(k))
            arg == route.arg_data_type
            leading == <<[name |-> "self", eq |-> FALSE]>>
                       \o (IF out[k].before.suffix = "_to_file"
                           THEN <<[name |-> "download_path", eq |-> FALSE]>>
                           ELSE <<>>)
                       \o (IF route.attrs.style = "upload"
                           THEN <<[name |-> "f", eq |-> FALSE]>>
                           ELSE <<>>)
            n == Len(leading)
            items == out[k].items
        IN  /\ SubSeq(items, 1, n) = leading
            /\ arg.kind = "struct" =>
                  /\ Len(items) = n + Len(arg.all_fields)
                  /\ \A i \in 1..Len(arg.all_fields) :
                        items[n + i] = C6_Param(arg.all_fields[i])
            /\ arg.kind = "union" =>
                  items = leading \o <<[name |-> "arg", eq |-> FALSE]>>
            /\ arg.kind = "void" => items = leading

\* a struct with a nullable field that has a default and a field that is not
\* nullable and has one, and a method of a Union argument
C6_Witness ==
    /\ pc = "done"
    /\ \E k \in Decls :
          LET arg == RouteAt(RouteOfDecl(k)).arg_data_type
          IN  /\ is_struct_type(arg)
              /\ Len(arg.all_fields) = 2
              /\ is_nullable_type(arg.all_fields[1].data_type)
              /\ arg.all_fields[1].has_default
              /\ ~is_nullable_type(arg.all_fields[2].data_type)
              /\ arg.all_fields[2].has_default
              /\ out[k].items[Len(out[k].items) - 1].value = [form |-> "None"]
              /\ out[k].items[Len(out[k].items)].value.form = "literal"

-----------------------------------------------------------------------------
(* C9: where the signature renders a default that is a TaggedValue (the     *)
(* field is not nullable), the rendered reference resolves to the triple    *)
(* it was given: the namespace of the TaggedValue's union type, that        *)
(* union's class, and the tag.                                              *)

\* the reference '<namespace>.<class>.<tag>' read back
C9_Resolve(value) ==
    [namespace |-> value.ns, union |-> value.cls.of, tag |-> value.tag.of]

-----------------------------------------------------------------------------
(* Reading a signature and a request call *)

\* how many parameters the argument type adds to a signature
TypeParams(arg_data_type) ==
    IF is_struct_type(arg_data_type) THEN Len(arg_data_type.all_fields)
    ELSE IF is_union_type(arg_data_type) THEN 1
    ELSE 0

\* the fourth argument of every request call of a method
BinaryBodyArgs(method) ==
    {method[p].items[4].name : p \in Places(method, "request")}

-----------------------------------------------------------------------------
(* C7 as claimed: an upload route has one method, 'f' is the last parameter *)
(* of its signature whatever the argument type, and the request call passes *)
(* 'f' as its fourth argument; every other route passes None there.         *)

C7_BinaryBodyTrailing ==
    \A r \in Routes : Generated(r) =>
        \A k \in DeclsOf(r) :
            IF RouteAt(r).attrs.style = "upload"
            THEN /\ Cardinality(DeclsOf(r)) = 1
                 /\ out[k].items[Len(out[k].items)] = [name |-> "f", eq |-> FALSE]
                 /\ BinaryBodyArgs(Method(k)) = {"f"}
            ELSE BinaryBodyArgs(Method(k)) = {"None"}

(* C7 as amended: an upload route has one method; 'f' is the parameter      *)
(* right after the receiver and before every parameter the argument type    *)
(* adds (so it is last only for a Void argument or a Struct without         *)
(* fields), it occurs once, and the request call passes 'f' as its fourth   *)
(* argument.  Every other route has no parameter 'f' ahead of the argument  *)
(* type's own and passes None as the fourth argument.                       *)

C7_BinaryBodyAfterReceiver ==
    \A r \in Routes : Generated(r) =>
        \A k \in DeclsOf(r) :
            LET items == out[k].items
                own == TypeParams(RouteAt(r).arg_data_type)
            IN  IF RouteAt(r).attrs.style = "upload"
                THEN /\ Cardinality(DeclsOf(r)) = 1
                     /\ Len(items) = 2 + own
                     /\ items[1] = [name |-> "self", eq |-> FALSE]
                     /\ items[2] = [name |-> "f", eq |-> FALSE]
                     /\ BinaryBodyArgs(Method(k)) = {"f"}
                ELSE /\ \A i \in 1..Len(items) - own : items[i].name # "f"
                     /\ BinaryBodyArgs(Method(k)) = {"None"}

\* an upload route whose struct argument has fields
C7_Witness ==
    /\ pc = "done"
    /\ \E r \in Routes :
          /\ RouteAt(r).attrs.style = "upload"
          /\ is_struct_type(RouteAt(r).arg_data_type)
          /\ Len(RouteAt(r).arg_data_type.all_fields) = 2
          /\ \E k \in DeclsOf(r) :
                /\ out[k].items[2].name = "f"
                /\ Len(out[k].items) = 4
                /\ BinaryBodyArgs(Method(k)) = {"f"}

-----------------------------------------------------------------------------
(* C8: a method has a docstring unless the route has no overview text and   *)
(* the argument type has no fields; whenever the signature has a parameter  *)
(* that comes from a field of the argument type, own or inherited, the      *)
(* method has a docstring.                                                  *)

C8_DocstringIffDocumentable ==
    \A k \in Decls :
        LET route == RouteAt(RouteOfDecl(k))
            arg == route.arg_data_type
            documentable ==
                \/ is_struct_type(arg) /\ arg.all_fields # <<>>
                \/ is_union_type(arg) /\ arg.fields # <<>>
        IN  /\ HasDocstring(Method(k)) <=> ~(route.doc = "" /\ ~documentable)
            /\ (/\ is_struct_type(arg)
                /\ \E i \in 1..Len(arg.all_fields) :
                      out[k].items[Len(out[k].items) - Len(arg.all_fields) + i].name
                         = arg.all_fields[i].name)
               => HasDocstring(Method(k))

-----------------------------------------------------------------------------
(* Comparing the two methods of a download route *)

\* the file variant without its name suffix, its destination-path parameter
\* and its file-save call
WithoutFileSaving(file) ==
    LET decl == [file[1] EXCEPT !.before.suffix = "",
                                !.items = Without(@, {2})]
    IN  Without(<<decl>> \o Tail(file), Places(file, "save"))

\* the places of the docstring's note on the destination path
PathNotes(method) ==
    {p \in Places(method, "doc_param") : method[p].name = "download_path"}

\* the places of the docstring's notes on 'arg' when the argument is a Union
\* without variants (the plain variant then has no parameter section)
BareUnionNotes(method, arg_data_type) ==
    IF is_union_type(arg_data_type) /\ arg_data_type.fields = <<>>
    THEN {p \in Places(method, "doc_param") \cup Places(method, "doc_type") :
             method[p].name = "arg"}
    ELSE {}

\* the places of the docstring's footer and of the blank line before it
FooterPlaces(method) ==
    UNION {{p - 1, p} : p \in {q \in Places(method, "doc_text") :
                                  method[q].text
                                     = Verbatim(DOCSTRING_CLOSE_RESPONSE)}}

\* the value of every return statement of a method
Returns(method) == {method[p].value : p \in Places(method, "return")}

\* a method with 'return r[0]' read as 'return r'
RECURSIVE WholeResult(_)
WholeResult(method) ==
    IF method = <<>> THEN <<>>
    ELSE LET line == Head(method)
         IN  <<IF line.kind = "return" /\ line.value = "r[0]"
               THEN [line EXCEPT !.value = "r"]
               ELSE line>> \o WholeResult(Tail(method))

\* the two methods of a download route that has been generated
Variants ==
    {<<Method(Min(DeclsOf(r))), Method(Max(DeclsOf(r))),
       RouteAt(r).arg_data_type>> :
        r \in {q \in Routes : /\ Generated(q)
                              /\ RouteAt(q).attrs.style = "download"
                              /\ Cardinality(DeclsOf(q)) = 2}}

(* C2 as claimed: the two methods of a download route are the same lines    *)
(* once the name suffix, the destination-path parameter and the file-save   *)
(* call are taken out of the file variant.                                  *)

C2_VariantsDifferOnlyInFileSaving ==
    \A v \in Variants :
        /\ v[2][1].before.suffix = "_to_file"
        /\ v[2][1].items[2] = [name |-> "download_path", eq |-> FALSE]
        /\ Cardinality(Places(v[2], "save")) = 1
        /\ Places(v[1], "save") = {}
        /\ WithoutFileSaving(v[2]) = v[1]

(* C2 as amended: the two methods of a download route differ in the name    *)
(* suffix, the destination-path parameter and the file-save call (right     *)
(* after the request call) of the file variant, and besides in three        *)
(* places: the file variant's docstring has a note on the destination       *)
(* path (and with it, for a Union argument without variants, the notes on   *)
(* 'arg' that the plain variant leaves out), the plain variant's docstring  *)
(* ends with the close-the-response footer, and for a result that is not    *)
(* Void the file variant returns r[0] where the plain variant returns r.    *)
(* Every other line, in particular the rest of the docstring, the           *)
(* deprecation warning, the argument and the request call, is the same in   *)
(* both.                                                                    *)

C2_VariantsDifferInFileSavingAndDocs ==
    \A v \in Variants :
        /\ v[2][1].before.suffix = "_to_file"
        /\ v[2][1].items[2] = [name |-> "download_path", eq |-> FALSE]
        /\ Cardinality(Places(v[2], "save")) = 1
        /\ \A p \in Places(v[2], "save") : v[2][p - 1].kind = "request"
        /\ Places(v[1], "save") = {}
        /\ PathNotes(v[1]) = {} /\ FooterPlaces(v[2]) = {}
        /\ BareUnionNotes(v[1], v[3]) = {}
        /\ HasDocstring(v[1]) <=> HasDocstring(v[2])
        /\ HasDocstring(v[1]) =>
              /\ Cardinality(PathNotes(v[2])) = 1
              /\ Cardinality(FooterPlaces(v[1])) = 2
        /\ Returns(v[1]) \in {{"None"}, {"r"}}
        /\ Returns(v[2]) \in {{"None"}, {"r[0]"}}
        /\ WholeResult(Without(WithoutFileSaving(v[2]),
                               PathNotes(v[2]) \cup BareUnionNotes(v[2], v[3])))
              = Without(v[1], FooterPlaces(v[1]))

\* a deprecated download route with an overview, a struct argument with
\* fields, a result and an error type, generated in both variants
C2_Witness ==
    /\ pc = "done"
    /\ \E r \in Routes :
          /\ RouteAt(r).attrs.style = "download"
          /\ RouteAt(r).doc # ""
          /\ RouteAt(r).deprecated.set
          /\ is_struct_type(RouteAt(r).arg_data_type)
          /\ RouteAt(r).arg_data_type.fields # <<>>
          /\ ~is_void_type(RouteAt(r).result_data_type)
          /\ ~is_void_type(RouteAt(r).error_data_type)
          /\ Cardinality(DeclsOf(r)) = 2
          /\ Returns(Method(Max(DeclsOf(r)))) = {"r[0]"}
          /\ Returns(Method(Min(DeclsOf(r)))) = {"r"}

-----------------------------------------------------------------------------
(* C11: in every emitted signature no parameter rendered without '='        *)
(* follows a parameter rendered as '<name>=...', whatever the order in      *)
(* which the Struct argument's all_fields declares its nullable, defaulted  *)
(* and required fields.                                                     *)

C11_NoRequiredAfterDefault ==
    \A k \in Decls :
        \A i, j \in 1..Len(out[k].items) :
            (i < j /\ out[k].items[i].eq) => out[k].items[j].eq

====
